---- MODULE Spec2Model ----
(***************************************************************************)
(* Model of the three CSV scripts of the repository:                       *)
(*   transform_csv.py       transform_world_bank_csv and its __main__      *)
(*   filter_by_centroids.py load_centroid_countries, filter_energy_data    *)
(* Strings the code inspects character by character (column names, country *)
(* names, cells) are sequences of one-character strings; strings the code  *)
(* only compares for equality (series labels, exception names) are TLA+    *)
(* strings.                                                                *)
(***************************************************************************)
EXTENDS Integers, Sequences, FiniteSets, TLC

VARIABLES pc, headers, rows, year_columns, years, country_data, ci,
          output_rows, countries_with_data, summary, dest, dest0,
          exc, raised_in, stderr, exit_code,
          f_pc, centroid_countries, all_rows, fieldnames, fi, filtered_rows,
          countries_in_energy, countries_matched, countries_unmatched,
          f_out, f_exc, f_exit

vars == <<pc, headers, rows, year_columns, years, country_data, ci,
          output_rows, countries_with_data, summary, dest, dest0,
          exc, raised_in, stderr, exit_code,
          f_pc, centroid_countries, all_rows, fieldnames, fi, filtered_rows,
          countries_in_energy, countries_matched, countries_unmatched,
          f_out, f_exc, f_exit>>

tvars == <<pc, headers, rows, year_columns, years, country_data, ci,
           output_rows, countries_with_data, summary, dest, dest0,
           exc, raised_in, stderr, exit_code>>

fvars == <<f_pc, centroid_countries, all_rows, fieldnames, fi, filtered_rows,
           countries_in_energy, countries_matched, countries_unmatched,
           f_out, f_exc, f_exit>>

(***************************************************************************)
(* Bounds of the model.                                                    *)
(***************************************************************************)
\* free rows appended to the input file of the reshaper
MaxRows == 3
\* rows of the energy file read by the filter
MaxEnergyRows == 3
\* rows of the centroid file read by the filter
MaxCentroidRows == 2

(***************************************************************************)
(* Python values and string primitives.                                    *)
(***************************************************************************)
\* Python's None (a cell DictReader fills in for a short row); no string of
\* one-character elements equals it.
None == <<"None">>

Range(s) == {s[i] : i \in 1..Len(s)}

Min2(a, b) == IF a <= b THEN a ELSE b

\* code points of the characters the inputs use
Ord == (" " :> 32) @@ ("-" :> 45) @@ ("." :> 46) @@ ("0" :> 48) @@ ("1" :> 49)
       @@ ("2" :> 50) @@ ("3" :> 51) @@ ("4" :> 52) @@ ("5" :> 53)
       @@ ("6" :> 54) @@ ("7" :> 55) @@ ("8" :> 56) @@ ("9" :> 57) @@ ("A" :> 65) @@ ("B" :> 66) @@ ("C" :> 67)
       @@ ("M" :> 77) @@ ("N" :> 78) @@ ("O" :> 79) @@ ("Q" :> 81)
       @@ ("R" :> 82) @@ ("S" :> 83) @@ ("Y" :> 89) @@ ("[" :> 91)
       @@ ("]" :> 93) @@ ("a" :> 97) @@ ("b" :> 98) @@ ("c" :> 99)
       @@ ("d" :> 100) @@ ("e" :> 101) @@ ("i" :> 105) @@ ("m" :> 109)
       @@ ("n" :> 110) @@ ("o" :> 111) @@ ("r" :> 114) @@ ("s" :> 115)
       @@ ("t" :> 116) @@ ("u" :> 117) @@ ("x" :> 120) @@ ("y" :> 121)

DigitChars == <<"0", "1", "2", "3", "4", "5", "6", "7", "8", "9">>

Digits == Range(DigitChars)

DigitVal(ch) == Ord[ch] - 48

IsSpace(ch) == ch = " "

\* str < str: code-point lexicographic order, a proper prefix sorts first
RECURSIVE StrLess(_, _)
StrLess(a, b) ==
    IF b = <<>> THEN FALSE
    ELSE IF a = <<>> THEN TRUE
    ELSE IF Ord[Head(a)] # Ord[Head(b)] THEN Ord[Head(a)] < Ord[Head(b)]
    ELSE StrLess(Tail(a), Tail(b))

\* col.startswith(p)
StartsWith(col, p) ==
    /\ Len(col) >= Len(p)
    /\ \A i \in 1..Len(p) : col[i] = p[i]

\* p in col
Contains(col, p) ==
    \E k \in 0..(Len(col) - Len(p)) : \A i \in 1..Len(p) : col[k + i] = p[i]

\* s.strip()
RECURSIVE LStrip(_)
LStrip(s) == IF s # <<>> /\ IsSpace(Head(s)) THEN LStrip(Tail(s)) ELSE s

RECURSIVE RStrip(_)
RStrip(s) ==
    IF s # <<>> /\ IsSpace(s[Len(s)]) THEN RStrip(SubSeq(s, 1, Len(s) - 1)) ELSE s

Strip(s) == RStrip(LStrip(s))

\* col.split()[0]: the first maximal run of non-space characters; <<>> stands
\* for the IndexError of an all-space string
RECURSIVE UntilSpace(_)
UntilSpace(s) ==
    IF s = <<>> \/ IsSpace(Head(s)) THEN <<>> ELSE <<Head(s)>> \o UntilSpace(Tail(s))

FirstToken(col) == UntilSpace(LStrip(col))

AllDigits(s) == s # <<>> /\ \A i \in 1..Len(s) : s[i] \in Digits

RECURSIVE DigitsValue(_)
DigitsValue(s) ==
    IF s = <<>> THEN 0 ELSE 10 * DigitsValue(SubSeq(s, 1, Len(s) - 1)) + DigitVal(s[Len(s)])

\* int(tok) succeeds: optional sign, then decimal digits only
IntParses(tok) ==
    LET t == Strip(tok)
        u == IF t # <<>> /\ Head(t) \in {"-"} THEN Tail(t) ELSE t
    IN  AllDigits(u)

IntValue(tok) ==
    LET t == Strip(tok)
    IN  IF t # <<>> /\ Head(t) = "-" THEN 0 - DigitsValue(Tail(t)) ELSE DigitsValue(t)

(***************************************************************************)
(* float(): strip, optional sign, digits with at most one point and at     *)
(* least one digit.  A float is [neg, mant, scale]: the sign bit and the    *)
(* magnitude mant / 10^scale with no trailing zero in the fraction, so     *)
(* "1.50" and "1.5" are the same float.                                    *)
(***************************************************************************)
Unsigned(s) ==
    LET t == Strip(s) IN IF t # <<>> /\ Head(t) = "-" THEN Tail(t) ELSE t

PointCount(s) == Cardinality({i \in 1..Len(s) : s[i] = "."})

DigitCount(s) == Cardinality({i \in 1..Len(s) : s[i] \in Digits})

FloatParses(s) ==
    LET u == Unsigned(s)
    IN  /\ \A i \in 1..Len(u) : u[i] \in Digits \cup {"."}
        /\ PointCount(u) <= 1
        /\ DigitCount(u) >= 1

RECURSIVE Normalize(_, _)
Normalize(mant, scale) ==
    IF scale > 0 /\ mant % 10 = 0 THEN Normalize(mant \div 10, scale - 1)
    ELSE [mant |-> mant, scale |-> scale]

FloatValue(s) ==
    LET t  == Strip(s)
        u  == Unsigned(s)
        p  == IF PointCount(u) = 0 THEN Len(u) + 1
              ELSE CHOOSE i \in 1..Len(u) : u[i] = "."
        ds == SubSeq(u, 1, p - 1) \o SubSeq(u, p + 1, Len(u))
        n  == Normalize(DigitsValue(ds), Len(u) - Min2(p, Len(u)))
    IN  [neg |-> (t # <<>> /\ Head(t) = "-"), mant |-> n.mant, scale |-> n.scale]

\* str(n) of a non-negative int
RECURSIVE FormatInt(_)
FormatInt(n) ==
    IF n < 10 THEN <<DigitChars[n + 1]>>
    ELSE FormatInt(n \div 10) \o <<DigitChars[(n % 10) + 1]>>

RECURSIVE Pow10(_)
Pow10(k) == IF k = 0 THEN 1 ELSE 10 * Pow10(k - 1)

RECURSIVE ZeroPad(_, _)
ZeroPad(s, width) == IF Len(s) >= width THEN s ELSE ZeroPad(<<"0">> \o s, width)

\* str(f) of a float, as csv.DictWriter writes it: always with a point
FormatFloat(f) ==
    LET ip == f.mant \div Pow10(f.scale)
        fp == f.mant % Pow10(f.scale)
    IN  (IF f.neg THEN <<"-">> ELSE <<>>)
        \o FormatInt(ip) \o <<".">>
        \o (IF f.scale = 0 THEN <<"0">> ELSE ZeroPad(FormatInt(fp), f.scale))

(***************************************************************************)
(* transform_csv.py: names.                                                *)
(***************************************************************************)
CountryNameCol == <<"C", "o", "u", "n", "t", "r", "y", " ", "N", "a", "m", "e">>
CountryCodeCol == <<"C", "o", "u", "n", "t", "r", "y", " ", "C", "o", "d", "e">>
SeriesNameCol  == <<"S", "e", "r", "i", "e", "s", " ", "N", "a", "m", "e">>
YearCol        == <<"Y", "e", "a", "r">>

PowerSeries  == "Electric power consumption (kWh per capita)"
EnergySeries == "Energy use (kg of oil equivalent per capita)"
GhgSeries    == "Total greenhouse gas emissions including LULUCF (Mt CO2e)"

\* source label -> output label
METRICS ==
    (PowerSeries :> "Electric Power Consumption (kWh per capita)")
    @@ (EnergySeries :> "Energy Use (kg oil equivalent per capita)")
    @@ (GhgSeries :> "Greenhouse Gas Emissions (Mt CO2e)")

\* the comparison len(metric_rows) != 3
NumMetrics == 3

\* the missing-data marker '..'
Sentinel == <<".", ".">>

\* reader.fieldnames of a file of no lines is None, of a file of blank lines []
NoFieldnames == None

\* the columns csv.DictWriter writes
OutFieldnames ==
    <<"Country Name", "Country Code", "Year", METRICS[PowerSeries],
      METRICS[EnergySeries], METRICS[GhgSeries]>>

(***************************************************************************)
(* csv.DictReader: one dict per raw row, keyed by the header's names; of   *)
(* two columns with one name the later wins, and a short row reads None.   *)
(***************************************************************************)
LastIndex(h, c) == CHOOSE i \in 1..Len(h) : h[i] = c /\ \A j \in (i + 1)..Len(h) : h[j] # c

DictRow(h, raw) ==
    [c \in Range(h) |-> IF LastIndex(h, c) <= Len(raw) THEN raw[LastIndex(h, c)] ELSE None]

DictReader(h, raws) == [i \in 1..Len(raws) |-> DictRow(h, raws[i])]

(***************************************************************************)
(* Year columns (lines 33-34).                                             *)
(***************************************************************************)
IsYearColumn(col) == StartsWith(col, <<"2", "0">>) /\ Contains(col, <<"[", "Y", "R">>)

YearColumns(h) == SelectSeq(h, IsYearColumn)

\* int(col.split()[0]) does not raise
YearDerivable(col) == IntParses(FirstToken(col))

YearOf(col) == IntValue(FirstToken(col))

YearsOf(ycols) == [i \in 1..Len(ycols) |-> YearOf(ycols[i])]

(***************************************************************************)
(* Grouping (lines 39-42): country_data as the insertion-ordered sequence  *)
(* of its items, each [name, rows].                                        *)
(***************************************************************************)
RECURSIVE GroupInto(_, _)
GroupInto(acc, rs) ==
    IF rs = <<>> THEN acc
    ELSE LET row  == Head(rs)
             name == row[CountryNameCol]
             hit  == {i \in 1..Len(acc) : acc[i].name = name}
         IN  IF hit = {}
             THEN GroupInto(Append(acc, [name |-> name, rows |-> <<row>>]), Tail(rs))
             ELSE LET i == CHOOSE j \in hit : TRUE
                  IN  GroupInto([acc EXCEPT ![i].rows = Append(@, row)], Tail(rs))

\* sorted(country_data.items()): by name, the names being distinct
RECURSIVE InsertSorted(_, _)
InsertSorted(sorted, item) ==
    IF sorted = <<>> THEN <<item>>
    ELSE IF StrLess(item.name, Head(sorted).name) THEN <<item>> \o sorted
    ELSE <<Head(sorted)>> \o InsertSorted(Tail(sorted), item)

RECURSIVE SortedByName(_)
SortedByName(items) ==
    IF items = <<>> THEN <<>>
    ELSE InsertSorted(SortedByName(SubSeq(items, 1, Len(items) - 1)), items[Len(items)])

ItemsUnsorted(items) == items

ProcessingOrder(items) == SortedByName(items)

(***************************************************************************)
(* One country (lines 51-98).                                              *)
(***************************************************************************)
\* metric_rows after the loop of lines 55-60: a later row of a series
\* replaces an earlier one
RECURSIVE MetricRowsInto(_, _)
MetricRowsInto(acc, rs) ==
    IF rs = <<>> THEN acc
    ELSE LET row == Head(rs)
             s   == row[SeriesNameCol]
         IN  IF s \in DOMAIN METRICS
             THEN MetricRowsInto([t \in DOMAIN acc \cup {s} |-> IF t = s THEN row ELSE acc[t]],
                                 Tail(rs))
             ELSE MetricRowsInto(acc, Tail(rs))

EmptyDict == [t \in {} |-> None]

MetricRowsAllCountries(country_rows) == MetricRowsInto(EmptyDict, rows)

MetricRows(country_rows) == MetricRowsInto(EmptyDict, country_rows)

\* country_code after the loop: set from a metric row while it is still None
RECURSIVE CountryCodeInto(_, _)
CountryCodeInto(code, rs) ==
    IF rs = <<>> THEN code
    ELSE LET row == Head(rs)
         IN  IF row[SeriesNameCol] \in DOMAIN METRICS /\ code = None
             THEN CountryCodeInto(row[CountryCodeCol], Tail(rs))
             ELSE CountryCodeInto(code, Tail(rs))

CountryCode(country_rows) == CountryCodeInto(None, country_rows)

\* the loop of lines 55-60 raises KeyError
MetricLoopKeyError(country_rows) ==
    \/ \E i \in 1..Len(country_rows) : SeriesNameCol \notin DOMAIN country_rows[i]
    \/ \E i \in 1..Len(country_rows) :
          /\ country_rows[i][SeriesNameCol] \in DOMAIN METRICS
          /\ CountryCodeCol \notin DOMAIN country_rows[i]

\* line 63, negated
HasAllMetrics(metric_rows) == Cardinality(DOMAIN metric_rows) = NumMetrics

\* line 75
AnySentinel(power_val, energy_val, ghg_val) ==
    power_val = Sentinel \/ energy_val = Sentinel \/ ghg_val = Sentinel

\* what float(v) raises
FloatError(v) ==
    IF v = None THEN "TypeError"
    ELSE IF ~FloatParses(v) THEN "ValueError"
    ELSE "none"

\* the first exception of lines 80-82
ConvertError(power_val, energy_val, ghg_val) ==
    IF FloatError(power_val) # "none" THEN FloatError(power_val)
    ELSE IF FloatError(energy_val) # "none" THEN FloatError(energy_val)
    ELSE FloatError(ghg_val)

CaughtValueErrorOnly(e) == e = "ValueError"

\* line 83: except (ValueError, TypeError)
Caught(e) == e \in {"ValueError", "TypeError"}

PowerCell(metric_rows, year_col) == metric_rows[PowerSeries][year_col]

EnergyCellFromPowerRow(metric_rows, year_col) == metric_rows[PowerSeries][year_col]

EnergyCell(metric_rows, year_col) == metric_rows[EnergySeries][year_col]

GhgCell(metric_rows, year_col) == metric_rows[GhgSeries][year_col]

\* the column's outcome: "skip" (lines 76, 84), "emit", or the exception
\* that leaves the loop
ColumnOutcome(metric_rows, year_col) ==
    LET p == PowerCell(metric_rows, year_col)
        e == EnergyCell(metric_rows, year_col)
        g == GhgCell(metric_rows, year_col)
        x == ConvertError(p, e, g)
    IN  IF AnySentinel(p, e, g) THEN "skip"
        ELSE IF x = "none" THEN "emit"
        ELSE IF Caught(x) THEN "skip"
        ELSE x

\* the dict of lines 87-94; col is the position in year_columns of the
\* iteration that built it (not written to the file)
OutputRow(country_name, country_code, metric_rows, k) ==
    [name   |-> country_name,
     code   |-> country_code,
     Year   |-> years[k],
     power  |-> FloatValue(PowerCell(metric_rows, year_columns[k])),
     energy |-> FloatValue(EnergyCell(metric_rows, year_columns[k])),
     ghg    |-> FloatValue(GhgCell(metric_rows, year_columns[k])),
     col    |-> k]

\* the rows the loop of lines 68-95 appends for columns k..last
RECURSIVE YearLoop(_, _, _, _, _)
YearLoop(country_name, country_code, metric_rows, k, last) ==
    IF k > last THEN <<>>
    ELSE LET o    == ColumnOutcome(metric_rows, year_columns[k])
             rest == YearLoop(country_name, country_code, metric_rows, k + 1, last)
         IN  IF o = "emit"
             THEN <<OutputRow(country_name, country_code, metric_rows, k)>> \o rest
             ELSE rest

\* the first column whose conversion raises past the except clause
UncaughtColumns(metric_rows) ==
    {k \in 1..Len(year_columns) :
        ColumnOutcome(metric_rows, year_columns[k]) \notin {"skip", "emit"}}

CountryHasAnyDataAlways(new) == TRUE

\* country_has_any_data (lines 67, 95, 97): a row was appended for the country
CountryHasAnyData(new) == new # <<>>

\* one line of the destination, as DictWriter writes the dict
WrittenRow(r) ==
    <<r.name, IF r.code = None THEN <<>> ELSE r.code, FormatInt(r.Year),
      FormatFloat(r.power), FormatFloat(r.energy), FormatFloat(r.ghg)>>

WrittenRows(rs) == [i \in 1..Len(rs) |-> WrittenRow(rs[i])]

(***************************************************************************)
(* The files the reshaper may find at input_path.  A logical row is        *)
(* [name, code, series, cells]; its raw CSV row lays the fields out under  *)
(* the header's columns and ends early when the cells run out.             *)
(***************************************************************************)
Y2005     == <<"2", "0", "0", "5", " ", "[", "Y", "R", "2", "0", "0", "5", "]">>
Y2006     == <<"2", "0", "0", "6", " ", "[", "Y", "R", "2", "0", "0", "6", "]">>
Y2005Dup  == <<"2", "0", "0", "5", " ", "[", "Y", "R", "2", "0", "0", "5", "]", ".", "1">>
Y2005Tight == <<"2", "0", "0", "5", "[", "Y", "R", "2", "0", "0", "5", "]">>
Y20xx     == <<"2", "0", "x", "x", " ", "[", "Y", "R", "]">>
Y1999     == <<"1", "9", "9", "9", " ", "[", "Y", "R", "1", "9", "9", "9", "]">>
NotesCol  == <<"N", "o", "t", "e", "s">>

BaseCols == <<CountryNameCol, CountryCodeCol, SeriesNameCol>>

HeaderNormal == BaseCols \o <<Y2005, Y2006>>

HeaderPool ==
    { HeaderNormal,
      BaseCols \o <<Y2006, Y2005>>,
      BaseCols \o <<Y2005, Y2005Dup>>,
      BaseCols \o <<Y2005, Y2005>>,
      BaseCols \o <<NotesCol, Y2005>>,
      BaseCols \o <<NotesCol, Y1999>>,
      BaseCols \o <<Y20xx, Y2005>>,
      BaseCols \o <<Y2005, Y2005Tight>>,
      <<CountryCodeCol, SeriesNameCol, Y2005, Y2006>>,
      <<CountryNameCol, CountryCodeCol, Y2005, Y2006>>,
      <<CountryNameCol, SeriesNameCol, Y2005, Y2006>> }

NameA == <<"A">>
NameM == <<"M">>
NameMa == <<"M", "a">>

CodeOf(name) == name \o <<"X">>

OtherSeries == "Population, total"

IsBaseCol(c) == c \in Range(BaseCols)

CellIndex(h, i) == Cardinality({j \in 1..i : ~IsBaseCol(h[j])})

RawRow(h, lr) ==
    LET n == Cardinality({i \in 1..Len(h) : IsBaseCol(h[i]) \/ CellIndex(h, i) <= Len(lr.cells)})
    IN  [i \in 1..n |->
            IF h[i] = CountryNameCol THEN lr.name
            ELSE IF h[i] = CountryCodeCol THEN lr.code
            ELSE IF h[i] = SeriesNameCol THEN lr.series
            ELSE lr.cells[CellIndex(h, i)]]

LRow(name, series, cells) ==
    [name |-> name, code |-> CodeOf(name), series |-> series, cells |-> cells]

BoundedSeq(S, n) == UNION {[1..m -> S] : m \in 0..n}

\* a complete country, as the World Bank export lists it
BlockM ==
    << LRow(NameM, PowerSeries,  << <<"1", ".", "5">>, <<"2">> >>),
       LRow(NameM, EnergySeries, << <<"7">>, <<"0", ".", "5">> >>),
       LRow(NameM, OtherSeries,  << <<"9">>, <<"9">> >>),
       LRow(NameM, GhgSeries,    << <<"2", ".", "0">>, <<"9">> >>) >>

\* a country with two of the three series
BlockPartial ==
    << LRow(NameA, PowerSeries,  << <<"6">>, <<"6">> >>),
       LRow(NameA, GhgSeries,    << <<"5">>, <<"5">> >>) >>

\* rows under an unusual header
HeaderRows == {<<>>, BlockM, BlockM \o BlockPartial}

\* up to MaxRows arbitrary rows after a complete country
RowCells == { << <<"6">>, <<"1", ".", "5", "0">> >>, << <<".", ".">> >> }

RowPool ==
    {LRow(n, s, c) : n \in {NameA, NameM}, s \in {PowerSeries, EnergySeries, GhgSeries},
                     c \in RowCells}

\* one complete country with arbitrary cells, the last row cut short or not
CellPool == { <<".", ".">>, <<"1", ".", "5">>, <<"a", "b", "c">>, <<" ", "2", " ">> }

CellRows(p, e, g) ==
    << LRow(NameM, PowerSeries, p), LRow(NameM, EnergySeries, e), LRow(NameM, GhgSeries, g) >>

\* the destination before the run: a file of an earlier run
OldLines == << <<"old">> >>

(***************************************************************************)
(* transform_world_bank_csv step by step, and the __main__ block.          *)
(***************************************************************************)
Raise(e, where) ==
    /\ pc' = "raised"
    /\ exc' = e
    /\ raised_in' = where

NoRaise == UNCHANGED <<exc, raised_in>>

\* lines 28-30 on the file [h, raws]
ReadAs(h, raws) ==
    /\ headers' = h
    /\ rows' = DictReader(h, raws)

ReadFile(h, lrs) == ReadAs(h, [i \in 1..Len(lrs) |-> RawRow(h, lrs[i])])

\* the file found at input_path; the files of arbitrary rows and of arbitrary
\* cells are read with the destination present
InputChoice ==
    \/ \E h \in HeaderPool, lrs \in HeaderRows : ReadFile(h, lrs)
    \/ \E h \in {NoFieldnames, <<>>} : ReadAs(h, <<>>)
    \/ /\ dest.exists
       /\ \E free \in BoundedSeq(RowPool, MaxRows) : ReadFile(HeaderNormal, BlockM \o free)
    \/ /\ dest.exists
       /\ \E p \in [1..2 -> CellPool], e \in [1..2 -> CellPool], g \in BoundedSeq(CellPool, 2) :
             ReadFile(HeaderNormal, CellRows(p, e, g))

ReadInputTruncatingDest ==
    /\ pc = "read"
    /\ InputChoice
    /\ pc' = "years"
    /\ dest' = [exists |-> TRUE, lines |-> <<>>]
    /\ NoRaise
    /\ UNCHANGED <<year_columns, years, country_data, ci, output_rows,
                   countries_with_data, summary, dest0, stderr, exit_code>>

\* lines 27-30
ReadInput ==
    /\ pc = "read"
    /\ InputChoice
    /\ pc' = "years"
    /\ NoRaise
    /\ UNCHANGED <<year_columns, years, country_data, ci, output_rows,
                   countries_with_data, summary, dest, dest0, stderr, exit_code>>

\* line 27: open() raises (no such file, no permission)
ReadInputFails ==
    /\ pc = "read"
    /\ Raise("OSError", "read")
    /\ UNCHANGED <<headers, rows, year_columns, years, country_data, ci, output_rows,
                   countries_with_data, summary, dest, dest0, stderr, exit_code>>

\* lines 33-36
ExtractYears ==
    /\ pc = "years"
    /\ IF headers = NoFieldnames
       THEN /\ Raise("TypeError", "years")
            /\ UNCHANGED <<year_columns, years>>
       ELSE /\ year_columns' = YearColumns(headers)
            /\ IF \E i \in 1..Len(year_columns') : ~YearDerivable(year_columns'[i])
               THEN /\ Raise("ValueError", "years")
                    /\ UNCHANGED years
               ELSE /\ years' = YearsOf(year_columns')
                    /\ IF years' = <<>>
                       THEN Raise("ValueError", "years")
                       ELSE pc' = "group" /\ NoRaise
    /\ UNCHANGED <<headers, rows, country_data, ci, output_rows,
                   countries_with_data, summary, dest, dest0, stderr, exit_code>>

\* lines 39-48
GroupRows ==
    /\ pc = "group"
    /\ IF \E i \in 1..Len(rows) : CountryNameCol \notin DOMAIN rows[i]
       THEN /\ Raise("KeyError", "group")
            /\ UNCHANGED country_data
       ELSE /\ country_data' = GroupInto(<<>>, rows)
            /\ pc' = "build"
            /\ NoRaise
    /\ UNCHANGED <<headers, rows, year_columns, years, ci, output_rows,
                   countries_with_data, summary, dest, dest0, stderr, exit_code>>

\* lines 50-98, one iteration of the loop over the sorted countries
BuildCountry ==
    /\ pc = "build"
    /\ ci < Len(country_data)
    /\ LET item == ProcessingOrder(country_data)[ci + 1]
       IN  IF MetricLoopKeyError(item.rows)
           THEN /\ Raise("KeyError", "build")
                /\ UNCHANGED <<ci, output_rows, countries_with_data>>
           ELSE LET metric_rows  == MetricRows(item.rows)
                    country_code == CountryCode(item.rows)
                IN  IF ~HasAllMetrics(metric_rows)
                    THEN /\ ci' = ci + 1
                         /\ UNCHANGED <<pc, output_rows, countries_with_data>>
                         /\ NoRaise
                    ELSE LET bad  == UncaughtColumns(metric_rows)
                             last == IF bad = {} THEN Len(year_columns)
                                     ELSE (CHOOSE k \in bad : \A j \in bad : k <= j) - 1
                             new  == YearLoop(item.name, country_code, metric_rows, 1, last)
                         IN  /\ output_rows' = output_rows \o new
                             /\ IF bad # {}
                                THEN /\ Raise(ColumnOutcome(metric_rows,
                                                 year_columns[CHOOSE k \in bad : \A j \in bad : k <= j]),
                                              "build")
                                     /\ UNCHANGED <<ci, countries_with_data>>
                                ELSE /\ ci' = ci + 1
                                     /\ countries_with_data' =
                                            IF CountryHasAnyData(new)
                                            THEN countries_with_data + 1
                                            ELSE countries_with_data
                                     /\ UNCHANGED pc
                                     /\ NoRaise
    /\ UNCHANGED <<headers, rows, year_columns, years, country_data,
                   summary, dest, dest0, stderr, exit_code>>

\* lines 100-113
PrintSummary ==
    /\ pc = "build"
    /\ ci = Len(country_data)
    /\ summary' = [countries_with_data |-> countries_with_data,
                   total_rows |-> Len(output_rows)]
    /\ pc' = "open"
    /\ NoRaise
    /\ UNCHANGED <<headers, rows, year_columns, years, country_data, ci, output_rows,
                   countries_with_data, dest, dest0, stderr, exit_code>>

\* line 116: open(output_path, 'w') creates or truncates the destination
OpenOutput ==
    /\ pc = "open"
    /\ dest' = [exists |-> TRUE, lines |-> <<>>]
    /\ pc' = "write"
    /\ NoRaise
    /\ UNCHANGED <<headers, rows, year_columns, years, country_data, ci, output_rows,
                   countries_with_data, summary, dest0, stderr, exit_code>>

\* line 116: open() raises (no such directory, no permission)
OpenOutputFails ==
    /\ pc = "open"
    /\ Raise("OSError", "open")
    /\ UNCHANGED <<headers, rows, year_columns, years, country_data, ci, output_rows,
                   countries_with_data, summary, dest, dest0, stderr, exit_code>>

\* lines 117-134
WriteOutput ==
    /\ pc = "write"
    /\ dest' = [exists |-> TRUE, lines |-> <<OutFieldnames>> \o WrittenRows(output_rows)]
    /\ pc' = "returned"
    /\ NoRaise
    /\ UNCHANGED <<headers, rows, year_columns, years, country_data, ci, output_rows,
                   countries_with_data, summary, dest0, stderr, exit_code>>

\* line 141 returns: the script ends with status 0
MainReturns ==
    /\ pc = "returned"
    /\ pc' = "exited"
    /\ exit_code' = 0
    /\ NoRaise
    /\ UNCHANGED <<headers, rows, year_columns, years, country_data, ci, output_rows,
                   countries_with_data, summary, dest, dest0, stderr>>

MainExceptWithoutExit ==
    /\ pc = "raised"
    /\ pc' = "exited"
    /\ stderr' = Append(stderr, <<"Error", exc>>)
    /\ exit_code' = 0
    /\ NoRaise
    /\ UNCHANGED <<headers, rows, year_columns, years, country_data, ci, output_rows,
                   countries_with_data, summary, dest, dest0>>

\* lines 142-144
MainExcept ==
    /\ pc = "raised"
    /\ pc' = "exited"
    /\ stderr' = Append(stderr, <<"Error", exc>>)
    /\ exit_code' = 1
    /\ NoRaise
    /\ UNCHANGED <<headers, rows, year_columns, years, country_data, ci, output_rows,
                   countries_with_data, summary, dest, dest0>>

TInit ==
    /\ pc = "read"
    /\ headers = NoFieldnames
    /\ rows = <<>>
    /\ year_columns = <<>>
    /\ years = <<>>
    /\ country_data = <<>>
    /\ ci = 0
    /\ output_rows = <<>>
    /\ countries_with_data = 0
    /\ summary = [countries_with_data |-> 0, total_rows |-> 0]
    /\ dest \in {[exists |-> FALSE, lines |-> <<>>], [exists |-> TRUE, lines |-> OldLines]}
    /\ dest0 = dest
    /\ exc = "none"
    /\ raised_in = "none"
    /\ stderr = <<>>
    /\ exit_code = -1

(***************************************************************************)
(* filter_by_centroids.py.                                                 *)
(***************************************************************************)
CountryCol == <<"C", "O", "U", "N", "T", "R", "Y">>

CentroidHeader == <<CountryCol>>

EnergyHeader == <<CountryNameCol, CountryCodeCol, YearCol>>

FilterNames == {NameA, NameM, NameMa}

EnergyRowPool ==
    {<<n, CodeOf(n), y>> : n \in FilterNames, y \in {<<"2", "0", "0", "5">>, <<"2", "0", "0", "6">>}}

\* lines 12-17: the set of the COUNTRY cells
RECURSIVE CountriesInto(_, _)
CountriesInto(countries, rs) ==
    IF rs = <<>> THEN countries
    ELSE CountriesInto(countries \cup {Head(rs)[CountryCol]}, Tail(rs))

IsPrefixOfCentroid(country_name, centroids) ==
    \E c \in centroids : StartsWith(c, country_name)

\* line 45
InCentroids(country_name, centroids) == country_name \in centroids

\* one line of the output, as DictWriter writes the dict under fieldnames
WrittenDict(names, d) == [i \in 1..Len(names) |-> IF d[names[i]] = None THEN <<>> ELSE d[names[i]]]

WrittenDicts(names, ds) == [i \in 1..Len(ds) |-> WrittenDict(names, ds[i])]

FNoRaise == UNCHANGED f_exc

\* lines 23-25
LoadCentroids ==
    /\ f_pc = "load"
    /\ \E raws \in BoundedSeq({<<n>> : n \in FilterNames}, MaxCentroidRows) :
          centroid_countries' = CountriesInto({}, DictReader(CentroidHeader, raws))
    /\ f_pc' = "read"
    /\ FNoRaise
    /\ UNCHANGED <<all_rows, fieldnames, fi, filtered_rows, countries_in_energy,
                   countries_matched, countries_unmatched, f_out, f_exit>>

\* line 13: open() raises
LoadCentroidsFails ==
    /\ f_pc = "load"
    /\ f_pc' = "raised"
    /\ f_exc' = "OSError"
    /\ UNCHANGED <<centroid_countries, all_rows, fieldnames, fi, filtered_rows,
                   countries_in_energy, countries_matched, countries_unmatched,
                   f_out, f_exit>>

\* lines 27-39
ReadEnergy ==
    /\ f_pc = "read"
    /\ \E raws \in BoundedSeq(EnergyRowPool, MaxEnergyRows) :
          all_rows' = DictReader(EnergyHeader, raws)
    /\ fieldnames' = EnergyHeader
    /\ f_pc' = "filter"
    /\ FNoRaise
    /\ UNCHANGED <<centroid_countries, fi, filtered_rows, countries_in_energy,
                   countries_matched, countries_unmatched, f_out, f_exit>>

\* lines 41-49, one iteration
FilterRow ==
    /\ f_pc = "filter"
    /\ fi < Len(all_rows)
    /\ LET row          == all_rows[fi + 1]
           country_name == row[CountryNameCol]
       IN  /\ countries_in_energy' = countries_in_energy \cup {country_name}
           /\ IF InCentroids(country_name, centroid_countries)
              THEN /\ filtered_rows' = Append(filtered_rows, row)
                   /\ countries_matched' = countries_matched \cup {country_name}
                   /\ UNCHANGED countries_unmatched
              ELSE /\ countries_unmatched' = countries_unmatched \cup {country_name}
                   /\ UNCHANGED <<filtered_rows, countries_matched>>
    /\ fi' = fi + 1
    /\ FNoRaise
    /\ UNCHANGED <<f_pc, centroid_countries, all_rows, fieldnames, f_out, f_exit>>

\* lines 52-85
WriteFiltered ==
    /\ f_pc = "filter"
    /\ fi = Len(all_rows)
    /\ f_out' = [exists |-> TRUE,
                 lines |-> <<fieldnames>> \o WrittenDicts(fieldnames, filtered_rows)]
    /\ f_pc' = "returned"
    /\ FNoRaise
    /\ UNCHANGED <<centroid_countries, all_rows, fieldnames, fi, filtered_rows,
                   countries_in_energy, countries_matched, countries_unmatched, f_exit>>

\* lines 92-98
FilterMain ==
    /\ f_pc \in {"returned", "raised"}
    /\ f_exit' = IF f_pc = "raised" THEN 1 ELSE 0
    /\ f_pc' = "exited"
    /\ FNoRaise
    /\ UNCHANGED <<centroid_countries, all_rows, fieldnames, fi, filtered_rows,
                   countries_in_energy, countries_matched, countries_unmatched, f_out>>

FVarsInit ==
    /\ centroid_countries = {}
    /\ all_rows = <<>>
    /\ fieldnames = <<>>
    /\ fi = 0
    /\ filtered_rows = <<>>
    /\ countries_in_energy = {}
    /\ countries_matched = {}
    /\ countries_unmatched = {}
    /\ f_out = [exists |-> FALSE, lines |-> <<>>]
    /\ f_exc = "none"
    /\ f_exit = -1

\* the filter is not running
FIdle == f_pc = "idle" /\ FVarsInit

FInit == f_pc = "load" /\ FVarsInit

\* the reshaper is not running
TIdle ==
    /\ pc = "idle"
    /\ headers = NoFieldnames
    /\ rows = <<>>
    /\ year_columns = <<>>
    /\ years = <<>>
    /\ country_data = <<>>
    /\ ci = 0
    /\ output_rows = <<>>
    /\ countries_with_data = 0
    /\ summary = [countries_with_data |-> 0, total_rows |-> 0]
    /\ dest = [exists |-> FALSE, lines |-> <<>>]
    /\ dest0 = dest
    /\ exc = "none"
    /\ raised_in = "none"
    /\ stderr = <<>>
    /\ exit_code = -1

Init == TInit /\ FIdle

Next ==
    \/ (ReadInput /\ UNCHANGED fvars)
    \/ (ReadInputFails /\ UNCHANGED fvars)
    \/ (ExtractYears /\ UNCHANGED fvars)
    \/ (GroupRows /\ UNCHANGED fvars)
    \/ (BuildCountry /\ UNCHANGED fvars)
    \/ (PrintSummary /\ UNCHANGED fvars)
    \/ (OpenOutput /\ UNCHANGED fvars)
    \/ (OpenOutputFails /\ UNCHANGED fvars)
    \/ (WriteOutput /\ UNCHANGED fvars)
    \/ (MainReturns /\ UNCHANGED fvars)
    \/ (MainExcept /\ UNCHANGED fvars)

Spec == Init /\ [][Next]_vars

FilterInit == TIdle /\ FInit

FilterNext ==
    \/ (LoadCentroids /\ UNCHANGED tvars)
    \/ (LoadCentroidsFails /\ UNCHANGED tvars)
    \/ (ReadEnergy /\ UNCHANGED tvars)
    \/ (FilterRow /\ UNCHANGED tvars)
    \/ (WriteFiltered /\ UNCHANGED tvars)
    \/ (FilterMain /\ UNCHANGED tvars)

FilterSpec == FilterInit /\ [][FilterNext]_vars

(***************************************************************************)
(* The input as the claims speak of it, read off the rows directly.        *)
(***************************************************************************)
HasCol(c) == \A i \in 1..Len(rows) : c \in DOMAIN rows[i]

InputCountries ==
    IF HasCol(CountryNameCol) THEN {rows[i][CountryNameCol] : i \in 1..Len(rows)} ELSE {}

RowsOfSeries(c, s) ==
    {i \in 1..Len(rows) : rows[i][CountryNameCol] = c /\ rows[i][SeriesNameCol] = s}

\* the last row at or before i of country c and series s, 0 if there is none
RECURSIVE LastRowOfSeries(_, _, _)
LastRowOfSeries(c, s, i) ==
    IF i = 0 THEN 0
    ELSE IF rows[i][CountryNameCol] = c /\ rows[i][SeriesNameCol] = s THEN i
    ELSE LastRowOfSeries(c, s, i - 1)

CoversAllMetrics(c) ==
    /\ HasCol(CountryNameCol)
    /\ HasCol(SeriesNameCol)
    /\ \A s \in DOMAIN METRICS : LastRowOfSeries(c, s, Len(rows)) # 0

CompleteCountries ==
    IF HasCol(CountryNameCol) /\ HasCol(SeriesNameCol)
    THEN {c \in InputCountries :
             \A s \in DOMAIN METRICS : LastRowOfSeries(c, s, Len(rows)) # 0}
    ELSE {}

\* the cell of country c, series s under the k-th year column; of several rows
\* of the series the last one counts
SeriesCell(c, s, k) == rows[LastRowOfSeries(c, s, Len(rows))][year_columns[k]]

CellNumeric(v) == v # None /\ v # Sentinel /\ FloatParses(v)

ColumnComplete(c, k) == \A s \in DOMAIN METRICS : CellNumeric(SeriesCell(c, s, k))

RecordsOf(c, k) == {i \in 1..Len(output_rows) : output_rows[i].name = c /\ output_rows[i].col = k}

\* every country has been processed
Built ==
    \/ pc \in {"open", "write", "returned"}
    \/ pc \in {"raised", "exited"} /\ raised_in \in {"none", "open"}

\* the destination has been written
Written == pc \in {"returned", "exited"} /\ exc = "none"

OutLines == Tail(dest.lines)

\* C1: a country whose rows do not cover all three series has no Output Record,
\* neither among the rows built nor among the lines written.
C1_NoRecordForPartialCountry ==
    /\ \A i \in 1..Len(output_rows) : CoversAllMetrics(output_rows[i].name)
    /\ Written => \A i \in 1..Len(OutLines) : CoversAllMetrics(OutLines[i][1])

C1_Witness ==
    /\ Written
    /\ Len(OutLines) > 0
    /\ \E c \in InputCountries :
          /\ ~CoversAllMetrics(c)
          /\ RowsOfSeries(c, PowerSeries) # {}
          /\ \A k \in 1..Len(year_columns) : CellNumeric(SeriesCell(c, PowerSeries, k))

\* C2: for a country with all three series and a year column in which a cell is
\* "..", absent or not a float, the column's iteration appends no Output Record
\* and raises nothing, and the later columns are still processed.
C2_InvalidColumnSkipped ==
    /\ ~(raised_in = "build" /\ exc \in {"ValueError", "TypeError"})
    /\ year_columns # <<>> =>
          \A c \in CompleteCountries :
             LET incomplete == {k \in 1..Len(year_columns) : ~ColumnComplete(c, k)}
             IN  /\ \A k \in incomplete : RecordsOf(c, k) = {}
                 /\ Built =>
                       \A k \in (1..Len(year_columns)) \ incomplete :
                          (\E j \in incomplete : j < k) => RecordsOf(c, k) # {}

C2_Witness ==
    /\ pc = "exited"
    /\ exc = "none"
    /\ \E c \in CompleteCountries :
          /\ SeriesCell(c, EnergySeries, 1) \notin {None, Sentinel}
          /\ ~FloatParses(SeriesCell(c, EnergySeries, 1))
          /\ RecordsOf(c, 1) = {}
          /\ RecordsOf(c, 2) # {}

\* C3: the output holds exactly one Output Record per (country, year) with the
\* country complete and the year's three cells numeric: as many rows as such
\* pairs, and no (Country Name, Year) twice.
C3_OneRecordPerCountryYear ==
    Built =>
       /\ Len(output_rows) =
             Cardinality({<<q[1], years[q[2]]>> :
                             q \in {p \in CompleteCountries \X (1..Len(year_columns)) :
                                       ColumnComplete(p[1], p[2])}})
       /\ \A i, j \in 1..Len(output_rows) :
             (output_rows[i].name = output_rows[j].name
              /\ output_rows[i].Year = output_rows[j].Year) => i = j

\* C4: the three values of an Output Record are the floats of the cells of its
\* own country, in its own year column, in the rows of the power, energy and
\* greenhouse-gas series respectively; the line written carries them.
C4_ValuesFromOwnCells ==
    /\ \A i \in 1..Len(output_rows) :
          LET r == output_rows[i]
          IN  /\ r.power  = FloatValue(SeriesCell(r.name, PowerSeries, r.col))
              /\ r.energy = FloatValue(SeriesCell(r.name, EnergySeries, r.col))
              /\ r.ghg    = FloatValue(SeriesCell(r.name, GhgSeries, r.col))
    /\ Written =>
          /\ Len(OutLines) = Len(output_rows)
          /\ \A i \in 1..Len(OutLines) :
                /\ OutLines[i][4] = FormatFloat(output_rows[i].power)
                /\ OutLines[i][5] = FormatFloat(output_rows[i].energy)
                /\ OutLines[i][6] = FormatFloat(output_rows[i].ghg)

C4_Witness ==
    /\ Written
    /\ \E i \in 1..Len(output_rows) :
          LET r == output_rows[i]
          IN  /\ r.power # r.energy
              /\ r.energy # r.ghg
              /\ \E m \in RowsOfSeries(r.name, PowerSeries) :
                    /\ FloatParses(rows[m][year_columns[r.col]])
                    /\ FloatValue(rows[m][year_columns[r.col]]) # r.power

\* C5: the records written are ordered by Country Name ascending and, within a
\* country, by the position of the year column in the header; so the records
\* of a country are contiguous.
C5_SortedByCountryThenColumn ==
    /\ \A i, j \in 1..Len(output_rows) :
          i < j =>
             \/ StrLess(output_rows[i].name, output_rows[j].name)
             \/ /\ output_rows[i].name = output_rows[j].name
                /\ output_rows[i].col < output_rows[j].col
    /\ Written =>
          /\ Len(OutLines) = Len(output_rows)
          /\ \A i \in 1..Len(OutLines) :
                /\ OutLines[i][1] = output_rows[i].name
                /\ OutLines[i][3] = FormatInt(years[output_rows[i].col])

C5_Witness ==
    /\ Written
    /\ \E i, j \in 1..Len(output_rows) :
          /\ StrLess(output_rows[i].name, output_rows[j].name)
          /\ \E m, n \in 1..Len(rows) :
                /\ m < n
                /\ rows[m][CountryNameCol] = output_rows[j].name
                /\ rows[n][CountryNameCol] = output_rows[i].name
                /\ \A q \in 1..(n - 1) : rows[q][CountryNameCol] # output_rows[i].name
    /\ \E i, j \in 1..Len(output_rows) :
          /\ i < j
          /\ output_rows[i].name = output_rows[j].name

\* C6: a run in which a failure was raised ends with one message on the error
\* stream and exit code 1, a run without a failure with exit code 0; no exit
\* code is set before the run ends.
C6_ExitCode ==
    /\ pc = "exited" =>
          IF exc # "none"
          THEN exit_code = 1 /\ Len(stderr) = 1
          ELSE exit_code = 0 /\ stderr = <<>>
    /\ pc # "exited" => exit_code = -1 /\ stderr = <<>>
    /\ pc = "raised" <=> (exc # "none" /\ exit_code = -1)

C6_Witness ==
    /\ pc = "exited"
    /\ exc = "KeyError"
    /\ raised_in = "group"
    /\ exit_code = 1

\* C7 as claimed: the count printed as "Countries with data" is the number of
\* countries that have all three series.
C7_CountIsCompleteCountries ==
    Built => summary.countries_with_data = Cardinality(CompleteCountries)

\* C7 as amended: the count printed as "Countries with data" is the number of
\* countries that have all three series and at least one year column whose
\* three cells are numeric.
C7_CountIsCountriesWithRecord ==
    Built =>
       summary.countries_with_data =
          Cardinality({c \in CompleteCountries :
                          \E k \in 1..Len(year_columns) : ColumnComplete(c, k)})

C7_Witness ==
    /\ Built
    /\ summary.countries_with_data = 1
    /\ Cardinality(CompleteCountries) = 2

\* the year-column pattern: a four-digit token beginning with "20", then a
\* bracketed year tag
MatchesYearPattern(col) ==
    LET tok  == FirstToken(col)
        rest == LStrip(SubSeq(col, Len(tok) + 1, Len(col)))
    IN  /\ Len(tok) = 4
        /\ AllDigits(tok)
        /\ StartsWith(tok, <<"2", "0">>)
        /\ StartsWith(rest, <<"[", "Y", "R">>)
        /\ Contains(rest, <<"]">>)

\* C9: the year columns are exactly the header columns that match the pattern,
\* each with the integer of its leading token as year, and no column outside
\* the pattern makes the year derivation fail.
C9_YearColumnsArePattern ==
    /\ (raised_in = "years" /\ exc = "ValueError") =>
          \A i \in 1..Len(headers) : ~MatchesYearPattern(headers[i])
    /\ (pc \notin {"read", "years"} /\ raised_in \notin {"read", "years"}) =>
          /\ year_columns = SelectSeq(headers, MatchesYearPattern)
          /\ \A k \in 1..Len(year_columns) :
                years[k] = DigitsValue(SubSeq(year_columns[k], 1, 4))

\* C10: a failure raised while reading, extracting years, grouping or building
\* leaves the destination as it was; the destination changes only after every
\* country has been processed.
C10_DestUntouchedOnEarlyFailure ==
    /\ raised_in \in {"read", "years", "group", "build"} => dest = dest0
    /\ dest # dest0 =>
          /\ pc \in {"write", "returned", "exited"}
          /\ raised_in = "none"
          /\ ci = Len(country_data)
    /\ pc \in {"read", "years", "group", "build", "open"} => dest = dest0

C10_Witness ==
    /\ pc = "exited"
    /\ raised_in = "build"
    /\ dest0.exists
    /\ dest = dest0
    /\ Len(rows) > 0

(***************************************************************************)
(* filter_energy_data.                                                     *)
(***************************************************************************)
EnergyNames == {all_rows[i][CountryNameCol] : i \in 1..Len(all_rows)}

KeptRows == SelectSeq(all_rows, LAMBDA row : row[CountryNameCol] \in centroid_countries)

FilterWritten == f_pc \in {"returned", "exited"} /\ f_exc = "none"

\* C8: the output holds, under the input's header, exactly the rows of the
\* energy file whose Country Name is a COUNTRY of the centroid file, unmodified
\* and in input order; the matched and excluded sets are disjoint and together
\* are the Country Names of the energy file.
C8_FilterKeepsCentroidCountries ==
    FilterWritten =>
       /\ f_out.exists
       /\ Head(f_out.lines) = fieldnames
       /\ Len(f_out.lines) = Len(KeptRows) + 1
       /\ \A i \in 1..Len(KeptRows) :
             \A j \in 1..Len(fieldnames) : f_out.lines[i + 1][j] = KeptRows[i][fieldnames[j]]
       /\ countries_matched \cap countries_unmatched = {}
       /\ countries_matched \cup countries_unmatched = EnergyNames
       /\ countries_matched = EnergyNames \cap centroid_countries

C8_Witness ==
    /\ FilterWritten
    /\ Len(all_rows) >= 3
    /\ Len(f_out.lines) = 3
    /\ countries_unmatched # {}
    /\ all_rows[1][CountryNameCol] \notin centroid_countries
    /\ \E c \in centroid_countries : c \notin EnergyNames /\ StartsWith(c, all_rows[1][CountryNameCol])

====
